---- MODULE Spec2Model ----
(***************************************************************************)
(* rslog: the incremental slowlog reader (src/src/slowlog_reader.rs) and   *)
(* the polling driver (src/src/main.rs), run against a Redis server that   *)
(* is modelled as the environment.                                         *)
(*                                                                         *)
(* A SlowlogRecord is represented by its identifier: no other field of a   *)
(* record is read by the reader or by the driver's control flow.           *)
(***************************************************************************)
EXTENDS Integers, Sequences, FiniteSets, TLC

\* ---------------------------------------------------------------- bounds
\* Largest uptime the server reports before it can only restart.
MaxUptime == 2
\* The server assigns identifiers 0 .. MaxId - 1 between two resets.
MaxId == 5
\* The server's slowlog ring buffer keeps at most this many entries.
MaxLog == 4
\* The reader's fetch length. The code fixes it at 128 (slowlog_reader.rs:18);
\* it is scaled down here so that the fetch window can be smaller than the log.
FetchLength == 3

\* ------------------------------------------------------------- constants
\* last_id: -1 at construction and after a detected restart.
Sentinel == -1
\* uptime: 0 at construction.
InitialUptime == 0
\* How the process ended: std::process::exit(0), std::process::exit(1), the
\* panic of unimplemented!, or main returning; Running while it has not ended.
Running == "running"
ExitOk == "exit(0)"
ExitFatal == "exit(1)"
ExitPanic == "panic"
MainReturned == "returned"

\* redis::ErrorKind, as far as the code tells kinds apart. ResponseError
\* stands for every kind the code names nowhere.
IoError == "IoError"
AuthenticationFailed == "AuthenticationFailed"
ExtensionError == "ExtensionError"
TypeError == "TypeError"
ResponseError == "ResponseError"
Ok == "Ok"

ErrorKinds == {IoError, AuthenticationFailed, ExtensionError, TypeError, ResponseError}
\* Errors a reachable server can answer with.
ServerErrors == {AuthenticationFailed, ExtensionError, ResponseError}

\* Shapes of the text the server answers INFO SERVER with.
InfoShapes == {"uptime_line", "no_line", "no_value", "not_a_number"}

VARIABLES
    pc,         \* where the driver is
    status,     \* how the process ended, Running while it runs
    follow,     \* config.follow
    con,        \* sl_reader.con: "none" before construction, "live", "dead"
    last_id,    \* sl_reader.last_id
    uptime,     \* sl_reader.uptime
    length,     \* sl_reader.length
    res,        \* kind of the last result of get(), of try_from or of read_once's closure
    ret,        \* the records the last get() returned
    call,       \* what the get() of this turn of the loop saw
    cur,        \* what the most recent successful get() left
    pend,       \* a restart was detected by a failed get() since cur
    delivered,  \* the identifiers get() returned since last_id was last the sentinel
    lost,       \* the identifiers newer than last_id that a get() since then left out
    reach,      \* the server accepts connections
    srvMode,    \* "ok", or "faulty": the server may answer with errors
    srvUptime,  \* the server's uptime_in_seconds
    srvLog,     \* the server's slowlog, newest first
    srvNextId   \* the identifier the server gives its next entry

vars == <<pc, status, follow, con, last_id, uptime, length, res, ret, call,
          cur, pend, delivered, lost, reach, srvMode, srvUptime, srvLog, srvNextId>>

reader == <<con, last_id, uptime, length>>
ghosts == <<call, cur, pend, delivered, lost>>
server == <<reach, srvMode, srvUptime, srvLog, srvNextId>>

\* ------------------------------------------------------------ helpers
Min(a, b) == IF a < b THEN a ELSE b

SetMax(S) == CHOOSE x \in S : \A y \in S : y <= x

Ids(s) == {s[i] : i \in 1..Len(s)}

\* The largest identifier of a sequence, Sentinel when it is empty.
Top(s) == IF s = <<>> THEN Sentinel ELSE SetMax(Ids(s))

\* No successful get() yet.
NoPoll == [valid |-> FALSE, wm |-> Sentinel, top |-> Sentinel, ftop |-> Sentinel]

\* No get() in this turn of the loop yet.
NoCall == [made |-> FALSE, pre_id |-> Sentinel, pre_up |-> InitialUptime,
           seen |-> -1, fetchIssued |-> FALSE, fetched |-> <<>>,
           first |-> NoPoll, between |-> FALSE, recon |-> "none", again |-> {}]

\* ------------------------------------------------------------ the server
\* The length asked for is not passed on: the whole log is answered.
SlowlogResponseAll(log, n) == log

\* SLOWLOG GET n: up to n entries, newest first.
SlowlogResponse(log, n) == SubSeq(log, 1, Min(n, Len(log)))

\* What a command sent over the connection is answered with.
QueryErrors(c) ==
    IF c # "live" THEN {IoError}
    ELSE IF srvMode = "faulty" THEN ServerErrors ELSE {}

\* What opening a connection ends with.
ConnectOutcomes ==
    IF ~reach THEN {IoError}
    ELSE IF srvMode = "faulty" THEN {Ok} \cup ServerErrors ELSE {Ok}

\* ------------------------------------------------------------ the reader
\* get_uptime: the kind of its result for an INFO reply of the given shape.
GetUptimeKind(shape) ==
    IF shape = "uptime_line" THEN Ok ELSE TypeError

\* A restart is also seen in an uptime that did not move.
RestartDetectedNonStrict(observed, stored) == observed <= stored

\* check_for_restart: the comparison.
RestartDetected(observed, stored) == observed < stored

\* The watermark survives a restart.
CheckedLastIdKept(observed, stored, lid) == lid

\* check_for_restart: last_id after it.
CheckedLastId(observed, stored, lid) ==
    IF RestartDetected(observed, stored) THEN Sentinel ELSE lid

\* The filter keeps the entry at the watermark.
FilterNewInclusive(records, lid) == SelectSeq(records, LAMBDA r : r >= lid)

\* The filter hands the entries back oldest first.
FilterNewReversed(records, lid) ==
    LET kept == SelectSeq(records, LAMBDA r : r > lid)
    IN  [i \in 1..Len(kept) |-> kept[Len(kept) + 1 - i]]

\* Nothing is filtered.
FilterNewNone(records, lid) == records

\* get: the filter.
FilterNew(records, lid) == SelectSeq(records, LAMBDA r : r > lid)

\* The watermark is taken from the oldest new record.
NextLastIdOldest(new_records, lid) ==
    IF Len(new_records) > 0 THEN new_records[Len(new_records)] ELSE lid

\* get: last_id after it.
NextLastId(new_records, lid) ==
    IF Len(new_records) > 0 THEN new_records[1] ELSE lid

\* redis_error_handler: its result, given what update_connection would end with.
RedisErrorHandler(e, reconnect) ==
    IF e = IoError
    THEN (IF reconnect # Ok THEN reconnect ELSE Ok)
    ELSE Ok

\* The connection is taken for replaced whatever the reconnection ended with.
HandlerConAlways(e, reconnect, c) ==
    IF e = IoError THEN "live" ELSE c

\* redis_error_handler: the connection after it.
HandlerCon(e, reconnect, c) ==
    IF e = IoError /\ reconnect = Ok THEN "live" ELSE c

\* Every error ends the process.
ErrorHandlerAllFatal(e) ==
    CASE e = IoError -> ExitFatal
      [] e = AuthenticationFailed -> ExitFatal
      [] e = ExtensionError -> ExitFatal
      [] OTHER -> ExitPanic

\* An error of a kind the handler does not name is logged and retried.
ErrorHandlerLenient(e) ==
    CASE e = IoError -> Running
      [] e = AuthenticationFailed -> ExitFatal
      [] e = ExtensionError -> ExitFatal
      [] OTHER -> Running

\* error_handler: how it ends the process, Running when it returns.
ErrorHandler(e) ==
    CASE e = IoError -> Running
      [] e = AuthenticationFailed -> ExitFatal
      [] e = ExtensionError -> ExitFatal
      [] OTHER -> ExitPanic

\* ------------------------------------------------------------ Init
Init ==
    /\ follow \in BOOLEAN
    /\ pc = IF follow THEN "create" ELSE "once"
    /\ status = Running
    /\ con = "none"
    /\ last_id = Sentinel
    /\ uptime = InitialUptime
    /\ length = FetchLength
    /\ res = "none"
    /\ ret = <<>>
    /\ call = NoCall
    /\ cur = NoPoll
    /\ pend = FALSE
    /\ delivered = {}
    /\ lost = {}
    /\ reach \in BOOLEAN
    /\ srvMode = "ok"
    /\ srvUptime = 0
    /\ srvLog = <<>>
    /\ srvNextId = 0

\* ------------------------------------------------------------ the driver
\* create_slowlog_reader, one turn of its loop: SlowlogReader::try_from, and
\* error_handler on its error.
CreateAttempt ==
    /\ pc = "create"
    /\ \E c \in ConnectOutcomes :
        /\ res' = c
        /\ IF c = Ok
           THEN /\ con' = "live"
                /\ last_id' = Sentinel
                /\ uptime' = InitialUptime
                /\ length' = FetchLength
                /\ pc' = "poll"
                /\ status' = status
           ELSE /\ UNCHANGED reader
                /\ status' = ErrorHandler(c)
                /\ pc' = IF ErrorHandler(c) = Running THEN "create_sleep" ELSE "ended"
    /\ UNCHANGED <<follow, ret, ghosts, server>>

\* create_slowlog_reader: the sleep that ends a failed turn.
CreateSleep ==
    /\ pc = "create_sleep"
    /\ pc' = "create"
    /\ UNCHANGED <<status, follow, reader, res, ret, ghosts, server>>

\* The bookkeeping of a get() call. call: the state it started from, the uptime
\* it observed (-1: none), the server's answer to its fetch, what the
\* successful get() before it left (first), with between: a failed get() since
\* then detected a restart, and recon: what redis_error_handler's reconnection
\* ended with ("none": it made none), and again: the identifiers it returned
\* that were delivered before. cur: the watermark a successful get() leaves, and
\* the largest identifier it returned (top) and was sent (ftop). delivered and
\* lost start again when a get() resets last_id to the sentinel.
Record(kind, seen, issued, fetched, new, restart, recon) ==
    /\ call' = [made |-> TRUE, pre_id |-> last_id, pre_up |-> uptime, seen |-> seen,
                fetchIssued |-> issued, fetched |-> fetched,
                first |-> cur, between |-> pend, recon |-> recon,
                again |-> Ids(new) \cap (IF restart THEN {} ELSE delivered)]
    /\ delivered' = (IF restart THEN {} ELSE delivered) \cup Ids(new)
    /\ lost' = (IF restart THEN {} ELSE lost) \cup
               (IF kind = Ok
                THEN {x \in Ids(srvLog) :
                        x > (IF restart THEN Sentinel ELSE last_id)} \ Ids(new)
                ELSE {})
    /\ IF kind = Ok
       THEN /\ cur' = [valid |-> TRUE, wm |-> last_id', top |-> Top(new),
                       ftop |-> Top(fetched)]
            /\ pend' = FALSE
       ELSE /\ cur' = cur
            /\ pend' = (pend \/ restart)

\* read_continiously, the Err arm of its match on get()'s result e:
\* redis_error_handler, then error_handler on redis_error_handler's error. c is
\* the connection and up the server's reachability when get() returned.
HandleError(e, c, up, seen, issued, restart) ==
    \E reconnect \in (IF e = IoError
                      THEN (IF up THEN ConnectOutcomes ELSE {IoError})
                      ELSE {"none"}) :
       LET h == RedisErrorHandler(e, reconnect)
           st == IF h = Ok THEN Running ELSE ErrorHandler(h)
       IN  /\ con' = HandlerCon(e, reconnect, c)
           /\ status' = st
           /\ pc' = IF st = Running THEN "poll_sleep" ELSE "ended"
           /\ Record(e, seen, issued, <<>>, <<>>, restart, reconnect)

\* A failed uptime query is taken for an uptime of 0 before its error is returned.
GetUptimeFailsAsZero ==
    /\ pc = "poll"
    /\ \E e \in QueryErrors(con) \cup
                (IF con = "live" /\ srvMode = "faulty"
                 THEN {GetUptimeKind(sh) : sh \in InfoShapes} \ {Ok} ELSE {}) :
        /\ res' = e
        /\ ret' = <<>>
        /\ last_id' = CheckedLastId(0, uptime, last_id)
        /\ uptime' = 0
        /\ length' = length
        /\ HandleError(e, con, reach, -1, FALSE, FALSE)
    /\ UNCHANGED <<follow, server>>

\* A turn of read_continiously's loop in which the uptime query of
\* SlowlogReader::get fails: with an error reply, on a dead connection, or with
\* a reply get_uptime cannot parse.
GetUptimeFails ==
    /\ pc = "poll"
    /\ \E e \in QueryErrors(con) \cup
                (IF con = "live" /\ srvMode = "faulty"
                 THEN {GetUptimeKind(sh) : sh \in InfoShapes} \ {Ok} ELSE {}) :
        /\ res' = e
        /\ ret' = <<>>
        /\ UNCHANGED <<last_id, uptime, length>>
        /\ HandleError(e, con, reach, -1, FALSE, FALSE)
    /\ UNCHANGED <<follow, server>>

\* A failed fetch puts last_id back, and keeps the observed uptime.
GetFetchFailsKeepsWatermark ==
    /\ pc = "poll"
    /\ con = "live"
    /\ GetUptimeKind("uptime_line") = Ok
    /\ \E cut \in BOOLEAN :
       \E e \in (IF cut THEN {IoError} ELSE QueryErrors(con) \cup
                    (IF srvMode = "faulty" THEN {TypeError} ELSE {})) :
        /\ res' = e
        /\ ret' = <<>>
        /\ last_id' = last_id
        /\ uptime' = srvUptime
        /\ length' = length
        /\ reach' = IF cut THEN FALSE ELSE reach
        /\ HandleError(e, IF cut THEN "dead" ELSE con, reach /\ ~cut, srvUptime, TRUE,
                       RestartDetected(srvUptime, uptime))
    /\ UNCHANGED <<follow, srvMode, srvUptime, srvLog, srvNextId>>

\* A turn of the loop in which the uptime query of SlowlogReader::get succeeds
\* and its slowlog fetch fails. cut: the server went away between the two.
GetFetchFails ==
    /\ pc = "poll"
    /\ con = "live"
    /\ GetUptimeKind("uptime_line") = Ok
    /\ \E cut \in BOOLEAN :
       \E e \in (IF cut THEN {IoError} ELSE QueryErrors(con) \cup
                    (IF srvMode = "faulty" THEN {TypeError} ELSE {})) :
        /\ res' = e
        /\ ret' = <<>>
        /\ last_id' = CheckedLastId(srvUptime, uptime, last_id)
        /\ uptime' = srvUptime
        /\ length' = length
        /\ reach' = IF cut THEN FALSE ELSE reach
        /\ HandleError(e, IF cut THEN "dead" ELSE con, reach /\ ~cut, srvUptime, TRUE,
                       RestartDetected(srvUptime, uptime))
    /\ UNCHANGED <<follow, srvMode, srvUptime, srvLog, srvNextId>>

\* A turn of the loop in which SlowlogReader::get succeeds; the Ok arm of the
\* match prints the records.
GetOk ==
    /\ pc = "poll"
    /\ con = "live"
    /\ GetUptimeKind("uptime_line") = Ok
    /\ LET checked == CheckedLastId(srvUptime, uptime, last_id)
           fetched == SlowlogResponse(srvLog, length)
           new_records == FilterNew(fetched, checked)
       IN  /\ res' = Ok
           /\ ret' = new_records
           /\ last_id' = NextLastId(new_records, checked)
           /\ uptime' = srvUptime
           /\ UNCHANGED <<con, length>>
           /\ Record(Ok, srvUptime, TRUE, fetched, new_records,
                     RestartDetected(srvUptime, uptime), "none")
    /\ pc' = "poll_sleep"
    /\ UNCHANGED <<status, follow, server>>

Poll == GetUptimeFails \/ GetFetchFails \/ GetOk

\* read_continiously: the sleep that ends a turn of the loop; the turn's result
\* is dropped.
PollSleep ==
    /\ pc = "poll_sleep"
    /\ pc' = "poll"
    /\ res' = "none"
    /\ ret' = <<>>
    /\ call' = NoCall
    /\ UNCHANGED <<status, follow, reader, cur, pend, delivered, lost, server>>

\* read_once: one connection, one bare get_slowlog, then exit(0) or
\* error_handler; when error_handler returns, so do read_once and main.
ReadOnce ==
    /\ pc = "once"
    /\ \E c \in ConnectOutcomes :
       \E q \in (IF c = Ok THEN {Ok} \cup QueryErrors("live") \cup
                     (IF srvMode = "faulty" THEN {TypeError} ELSE {})
                 ELSE {c}) :
        /\ res' = q
        /\ ret' = IF q = Ok THEN SlowlogResponse(srvLog, FetchLength) ELSE <<>>
        /\ status' = IF q = Ok THEN ExitOk
                     ELSE IF ErrorHandler(q) = Running THEN MainReturned
                     ELSE ErrorHandler(q)
    /\ pc' = "ended"
    /\ UNCHANGED <<follow, reader, ghosts, server>>

Driver == CreateAttempt \/ CreateSleep \/ Poll \/ PollSleep \/ ReadOnce

\* ------------------------------------------------------------ the environment
\* The driver is about to use the server. A sleep reads nothing of the server,
\* so what the server does during a sleep is taken at the end of it; and the
\* server is followed for as long as the process runs.
Awake == pc \in {"create", "poll", "once"}

\* A second passes on the server.
Tick ==
    /\ Awake
    /\ srvUptime < MaxUptime
    /\ srvUptime' = srvUptime + 1
    /\ UNCHANGED <<pc, status, follow, reader, res, ret, ghosts,
                   reach, srvMode, srvLog, srvNextId>>

\* The server logs a slow command.
LogEntry ==
    /\ Awake
    /\ srvNextId < MaxId
    /\ srvLog' = SubSeq(<<srvNextId>> \o srvLog, 1, Min(MaxLog, Len(srvLog) + 1))
    /\ srvNextId' = srvNextId + 1
    /\ UNCHANGED <<pc, status, follow, reader, res, ret, ghosts,
                   reach, srvMode, srvUptime>>

\* The server's log is cleared and its identifiers start again, without a restart.
LogReset ==
    /\ Awake
    /\ srvNextId > 0
    /\ srvLog' = <<>>
    /\ srvNextId' = 0
    /\ UNCHANGED <<pc, status, follow, reader, res, ret, ghosts,
                   reach, srvMode, srvUptime>>

\* The server becomes unreachable; an open connection is lost.
GoDown ==
    /\ Awake
    /\ reach
    /\ reach' = FALSE
    /\ con' = IF con = "live" THEN "dead" ELSE con
    /\ UNCHANGED <<pc, status, follow, last_id, uptime, length, res, ret, ghosts,
                   srvMode, srvUptime, srvLog, srvNextId>>

\* The server becomes reachable again, restarted or not.
GoUp ==
    /\ Awake
    /\ ~reach
    /\ reach' = TRUE
    /\ \E restarted \in BOOLEAN :
        IF restarted
        THEN srvUptime' = 0 /\ srvLog' = <<>> /\ srvNextId' = 0
        ELSE UNCHANGED <<srvUptime, srvLog, srvNextId>>
    /\ UNCHANGED <<pc, status, follow, reader, res, ret, ghosts, srvMode>>

\* The server starts or stops answering with errors.
SetMode ==
    /\ Awake
    /\ srvMode' = IF srvMode = "ok" THEN "faulty" ELSE "ok"
    /\ UNCHANGED <<pc, status, follow, reader, res, ret, ghosts,
                   reach, srvUptime, srvLog, srvNextId>>

Server == Tick \/ LogEntry \/ LogReset \/ GoDown \/ GoUp \/ SetMode

Next == Driver \/ Server

Spec == Init /\ [][Next]_vars

\* The driver is a sequential program: it takes its next step whenever it has one.
LiveSpec == Spec /\ WF_vars(Driver)

TypeOK ==
    /\ pc \in {"create", "create_sleep", "poll", "poll_sleep", "once", "ended"}
    /\ status \in {Running, ExitOk, ExitFatal, ExitPanic, MainReturned}
    /\ con \in {"none", "live", "dead"}
    /\ last_id \in Sentinel..(MaxId - 1)
    /\ uptime \in 0..MaxUptime
    /\ res \in {"none", Ok} \cup ErrorKinds
    /\ (con = "live" => reach)

\* ------------------------------------------------------------ properties
\* s is a subsequence of t: s is t with some entries left out, the rest in order.
IsSubseq(s, t) ==
    \E f \in [1..Len(s) -> 1..Len(t)] :
        /\ \A i \in 1..Len(s) : s[i] = t[f[i]]
        /\ \A i, j \in 1..Len(s) : i < j => f[i] < f[j]

\* The get() of this turn of the loop has returned.
Polled == call.made
\* ... with success.
PolledOk == call.made /\ res = Ok
\* ... having observed an uptime below the stored one.
SawRestart == call.made /\ call.seen # -1 /\ call.seen < call.pre_up
\* This successful get() follows a successful get(), and no get() after that
\* one, this one included, detected a restart.
SecondOfTwo ==
    PolledOk /\ call.first.valid /\ ~call.between /\ ~SawRestart

\* C1. Dedup correctness: the second of two consecutive successful get() calls
\* with no restart detected in between returns exactly the fetched entries whose
\* identifier is strictly greater than the watermark the first call left, and
\* the watermark after it is the largest identifier returned by the two calls
\* (the watermark the first call left, when neither returned an entry).
C1_DedupCorrectness ==
    SecondOfTwo =>
        /\ ret = SelectSeq(call.fetched, LAMBDA r : r > call.first.wm)
        /\ LET both == (Ids(ret) \cup {call.first.top}) \ {Sentinel}
           IN  last_id = IF both = {} THEN call.first.wm ELSE SetMax(both)

\* Two successful polls in a row, the second returning some of what it fetched
\* and leaving out the rest, after a first that returned entries too.
C1_Witness ==
    /\ SecondOfTwo
    /\ ret # <<>>
    /\ Len(ret) < Len(call.fetched)
    /\ call.first.top # Sentinel
    /\ last_id > call.first.wm

\* C2. Restart resets watermark: a get() that observes an uptime lower than the
\* stored one and succeeds returns every entry it fetched, whatever the
\* watermark was before the call; when its fetch fails, it leaves the sentinel.
C2_RestartResetsWatermark ==
    /\ (PolledOk /\ SawRestart) => ret = call.fetched
    /\ (SawRestart /\ res # Ok) => last_id = Sentinel

\* A restart was detected and an entry whose identifier is not above the old
\* watermark was returned.
C2_Witness ==
    /\ PolledOk
    /\ SawRestart
    /\ \E i \in 1..Len(ret) : ret[i] <= call.pre_id

\* C3. Failed poll is state-neutral: after a get() that returned an error,
\* last_id and uptime are what they were before the call.
C3_FailedPollStateNeutral ==
    (Polled /\ res # Ok) => (last_id = call.pre_id /\ uptime = call.pre_up)

\* C4. Idempotent empty poll: a successful get() that follows a successful get()
\* with no restart detected since, and is sent a log with the same largest
\* identifier, returns nothing and leaves the watermark where the first call
\* left it; so does a get() without a detected restart that is sent an empty log.
C4_IdempotentEmptyPoll ==
    /\ (SecondOfTwo /\ Top(call.fetched) = call.first.ftop) =>
            (ret = <<>> /\ last_id = call.first.wm)
    /\ (PolledOk /\ ~SawRestart /\ call.fetched = <<>>) =>
            (ret = <<>> /\ last_id = call.pre_id)

\* The second of two polls was sent the same non-empty log as the first.
C4_Witness ==
    /\ SecondOfTwo
    /\ call.fetched # <<>>
    /\ Top(call.fetched) = call.first.ftop
    /\ ret = <<>>

\* C5. Ordering preserved: what get() returns is a subsequence of the server's
\* newest-first answer, so its first element carries the largest returned
\* identifier.
C5_OrderingPreserved ==
    PolledOk =>
        /\ IsSubseq(ret, call.fetched)
        /\ (ret # <<>> => ret[1] = SetMax(Ids(ret)))

\* get() returned two entries.
C5_Witness ==
    /\ PolledOk
    /\ Len(ret) >= 2
    /\ ret[1] > ret[2]

\* C6. Watermark monotonicity: a get() (successful or not) that detects no
\* restart leaves last_id and uptime no lower than it found them, and the
\* watermark a successful get() leaves is no lower than the one the successful
\* get() before it left unless a restart was detected in between; a get() that
\* detects a restart leaves the sentinel, or the newest entry it returned.
C6_WatermarkMonotonic ==
    /\ (Polled /\ ~SawRestart) => (last_id >= call.pre_id /\ uptime >= call.pre_up)
    /\ SecondOfTwo => last_id >= call.first.wm
    /\ SawRestart => /\ uptime < call.pre_up
                     /\ last_id = IF ret # <<>> THEN ret[1] ELSE Sentinel

\* A poll without a restart raised the watermark above the one the poll before
\* it left.
C6_Witness ==
    /\ SecondOfTwo
    /\ call.first.wm > Sentinel
    /\ last_id > call.first.wm
    /\ uptime > call.pre_up

\* A poll detected a restart and left the sentinel.
C6_WitnessReset ==
    /\ SawRestart
    /\ call.pre_id > Sentinel
    /\ last_id = Sentinel

\* The driver is done with the result of this turn's get(): it sleeps before the
\* next turn, or the process has ended.
Handled == Polled /\ pc \in {"poll_sleep", "ended"}

\* The server accepts connections and answers without errors.
Healthy == reach /\ srvMode = "ok"

\* C7. Authentication and unsupported-operation failures are fatal wherever they
\* arise: once the driver is done with such a result of try_from, of read_once's
\* fetch or of get(), the process has ended with exit(1), without a retry.
C7_AuthAndExtensionFatal ==
    (res \in {AuthenticationFailed, ExtensionError}
        /\ pc \in {"create_sleep", "poll_sleep", "ended"})
    => status = ExitFatal

\* C8, as claimed. A transient failure of get() never ends the process, whether
\* or not the reconnection succeeds.
C8_TransientNeverTerminates ==
    (Handled /\ res = IoError) => status = Running

\* C8, amended. After a transient failure of get() the reader attempts a fresh
\* connection; when the attempt succeeds or fails transiently the loop goes on
\* to its sleep, and when it fails otherwise error_handler ends the process
\* (exit(1) for authentication and extension errors, a panic for the rest). A
\* sleeping loop polls again, and if the server becomes and stays healthy then,
\* unless the process has ended, get() succeeds again and again.
C8_TransientHandled ==
    /\ [](( Handled /\ res = IoError) =>
            /\ call.recon # "none"
            /\ (call.recon \in {Ok, IoError} => (pc = "poll_sleep" /\ status = Running))
            /\ (call.recon \in {AuthenticationFailed, ExtensionError}
                    => (pc = "ended" /\ status = ExitFatal))
            /\ (call.recon \in {TypeError, ResponseError}
                    => (pc = "ended" /\ status = ExitPanic))
            /\ (con = "live" => call.recon = Ok))
    /\ ((pc = "poll_sleep") ~> (pc = "poll"))
    /\ (<>[]Healthy => []<>(status # Running \/ PolledOk))

\* The loop sleeps after a transient failure whose reconnection failed too.
C8_Witness ==
    /\ pc = "poll_sleep"
    /\ res = IoError
    /\ call.recon = IoError
    /\ status = Running

\* The loop sleeps after a transient failure, reconnected.
C8_WitnessReconnected ==
    /\ pc = "poll_sleep"
    /\ res = IoError
    /\ call.recon = Ok
    /\ con = "live"

\* C9. A get() failure of a kind that is neither transient, authentication nor
\* unsupported-operation is not swallowed: once the driver is done with it, the
\* loop is not sleeping towards a retry and the process has ended.
C9_UnclassifiedSurfaced ==
    (Handled /\ res \in {TypeError, ResponseError}) => status # Running

\* C10. In follow mode the construction of the reader is retried after each
\* transient failure, with one sleep between two attempts; the retry loop is
\* left only by a successful construction, after which polling starts, or by
\* error_handler ending the process; and no get() is made before the
\* construction has succeeded.
C10_ConstructionRetried ==
    /\ [](con = "none" => (~call.made /\ ~cur.valid /\ pc # "poll"
                            /\ pc # "poll_sleep"))
    /\ [][ /\ (pc = "create" /\ pc' # "create") =>
                \/ pc' = "poll" /\ res' = Ok /\ con' = "live" /\ status' = Running
                \/ pc' = "create_sleep" /\ res' = IoError /\ con' = "none"
                        /\ status' = Running
                \/ pc' = "ended" /\ res' \notin {Ok, IoError} /\ con' = "none"
                        /\ status' \in {ExitFatal, ExitPanic}
           /\ (pc = "create_sleep" /\ pc' # "create_sleep") =>
                (pc' = "create" /\ con' = "none" /\ status' = Running) ]_vars

\* An attempt is due after an attempt that failed transiently and a sleep.
C10_Witness ==
    /\ pc = "create"
    /\ res = IoError
    /\ con = "none"

\* Polling has started.
C10_WitnessConstructed ==
    /\ pc = "poll"
    /\ con = "live"
    /\ ~cur.valid

\* C11. One-shot mode: read_once makes one bare fetch, with no uptime query and
\* no watermark, and the process finishes with status 0 (exit(0), or main
\* returning) only when the connection and the fetch succeeded; an
\* authentication or unsupported-operation error ends it with exit(1).
C11_OneShotExit ==
    (~follow /\ pc = "ended") =>
        /\ (last_id = Sentinel /\ uptime = InitialUptime /\ ~call.made)
        /\ (status \in {ExitOk, MainReturned} => res = Ok)
        /\ (res \in {AuthenticationFailed, ExtensionError} => status = ExitFatal)
        /\ (res = Ok => (status = ExitOk /\ ret = SlowlogResponse(srvLog, FetchLength)))

\* ------------------------------------------------------------ the reference scenario
\* The reader alone, polled with answers drawn from the uptimes and the slowlog
\* answers of the reference scenario and a few others. pc counts how many polls
\* of the scenario, in its order, the run has made so far ("scen_off": the run
\* has left the scenario).
ScenUptimes == {0, 2, 100, 105}
ScenAnswers == {<<>>, <<0>>, <<1, 0>>, <<5, 4, 3>>, <<6, 5, 4>>}

ScenInit ==
    /\ follow = TRUE
    /\ pc = "scen0"
    /\ status = Running
    /\ con = "live"
    /\ last_id = Sentinel
    /\ uptime = InitialUptime
    /\ length = FetchLength
    /\ res = "none"
    /\ ret = <<>>
    /\ call = NoCall
    /\ cur = NoPoll
    /\ pend = FALSE
    /\ delivered = {}
    /\ lost = {}
    /\ reach = TRUE
    /\ srvMode = "ok"
    /\ srvUptime = 0
    /\ srvLog = <<>>
    /\ srvNextId = 0

ScenStep(p, observed, fetched) ==
    CASE p = "scen0" /\ observed = 100 /\ fetched = <<5, 4, 3>> -> "scen1"
      [] p = "scen1" /\ observed = 105 /\ fetched = <<5, 4, 3>> -> "scen2"
      [] p = "scen2" /\ observed = 2 /\ fetched = <<1, 0>> -> "scen3"
      [] OTHER -> "scen_off"

\* SlowlogReader::get, succeeding on an uptime and a slowlog answer given to it.
ScenPoll ==
    /\ pc \in {"scen0", "scen1", "scen2", "scen3", "scen_off"}
    /\ \E observed \in ScenUptimes, fetched \in ScenAnswers :
       LET checked == CheckedLastId(observed, uptime, last_id)
           new_records == FilterNew(fetched, checked)
       IN  /\ res' = Ok
           /\ ret' = new_records
           /\ last_id' = NextLastId(new_records, checked)
           /\ uptime' = observed
           /\ pc' = ScenStep(pc, observed, fetched)
           /\ Record(Ok, observed, TRUE, fetched, new_records,
                     RestartDetected(observed, uptime), "none")
    /\ UNCHANGED <<status, follow, con, length, server>>

ScenSpec == ScenInit /\ [][ScenPoll]_vars

\* C12. Reference scenario: from watermark -1 and uptime 0, polls answered with
\* (100, [5,4,3]), (105, [5,4,3]) and (2, [1,0]) return [5,4,3], [] and [1,0]
\* and leave (last_id, uptime) at (5,100), (5,105) and (1,2); and a first poll,
\* against the baseline 0, returns all it fetched whatever uptime it observes.
C12_ReferenceScenario ==
    /\ pc = "scen1" => (ret = <<5, 4, 3>> /\ last_id = 5 /\ uptime = 100)
    /\ pc = "scen2" => (ret = <<>> /\ last_id = 5 /\ uptime = 105)
    /\ pc = "scen3" => (ret = <<1, 0>> /\ last_id = 1 /\ uptime = 2)
    /\ (call.made /\ ~call.first.valid) => (ret = call.fetched /\ ~SawRestart)

\* The three polls of the scenario have been made.
C12_Witness ==
    /\ pc = "scen3"
    /\ call.seen = 2
    /\ call.pre_id = 5
    /\ call.pre_up = 105

\* The uptime query of this turn's get() succeeded.
SawUptime == call.made /\ call.seen # -1

\* C13. Restart detection is the strict comparison: a get() whose uptime query
\* succeeds sets uptime to the observed value, and filters (or, its fetch
\* failing, leaves last_id) from the sentinel if the observed uptime is strictly
\* less than the stored one and from the old last_id otherwise; a successful
\* call moves last_id from there only to the first of a non-empty result.
C13_StrictComparison ==
    SawUptime =>
        LET base == IF call.seen < call.pre_up THEN Sentinel ELSE call.pre_id
        IN  /\ uptime = call.seen
            /\ res # Ok => last_id = base
            /\ res = Ok =>
                /\ ret = SelectSeq(call.fetched, LAMBDA r : r > base)
                /\ last_id = IF ret = <<>> THEN base ELSE ret[1]

\* A poll observed the uptime it had stored and kept its watermark, returning
\* nothing of a non-empty answer.
C13_Witness ==
    /\ PolledOk
    /\ call.seen = call.pre_up
    /\ call.pre_id > Sentinel
    /\ call.fetched # <<>>
    /\ ret = <<>>
    /\ last_id = call.pre_id

\* C14. When the uptime query of get() fails, get() returns that error without
\* fetching the slowlog and leaves last_id and uptime as they were.
C14_UptimeFailureFrame ==
    (Polled /\ ~SawUptime) =>
        /\ res \in {IoError, TypeError} \cup ServerErrors
        /\ ~call.fetchIssued
        /\ ret = <<>>
        /\ last_id = call.pre_id
        /\ uptime = call.pre_up

\* get() failed on an INFO reply it could not parse, with a watermark and an
\* uptime to lose.
C14_Witness ==
    /\ Polled
    /\ ~SawUptime
    /\ res = TypeError
    /\ call.pre_id > Sentinel
    /\ call.pre_up > InitialUptime
    /\ last_id = call.pre_id
    /\ uptime = call.pre_up

\* The watermark this turn's get() filtered from.
Base == IF SawRestart THEN Sentinel ELSE call.pre_id

\* The entries of the server's log newer than that watermark. The log is the one
\* get() was answered from: the server takes no step between a poll and the end
\* of the sleep after it.
Newer == {x \in Ids(srvLog) : x > Base}

\* C15. Bounded-window under-reporting: when more than length entries newer
\* than the watermark exist at poll time, a successful get() returns the newest
\* length entries of the log and moves last_id to the newest; the others are
\* left out, stay below last_id, and no get() returns an entry left out since
\* last_id was last reset.
C15_WindowUnderReports ==
    PolledOk =>
        /\ Cardinality(Newer) > length =>
              /\ ret = SubSeq(srvLog, 1, length)
              /\ last_id = srvLog[1]
              /\ Newer \ Ids(ret) # {}
              /\ Newer \ Ids(ret) \subseteq lost
        /\ Ids(ret) \cap lost = {}
        /\ \A x \in lost : x < last_id

\* A poll without a restart found more new entries than it fetches.
C15_Witness ==
    /\ PolledOk
    /\ ~SawRestart
    /\ Cardinality(Newer) > length
    /\ Len(ret) = length
    /\ lost # {}

\* C16. Log-clear gap: a successful get() that detects no restart returns no
\* entry whose identifier is at or below its stale watermark, however new the
\* entry; in particular it returns nothing and keeps the watermark while the
\* server's restarted identifiers have not passed the watermark.
C16_LogClearGap ==
    (PolledOk /\ ~SawRestart) =>
        /\ \A i \in 1..Len(call.fetched) :
              call.fetched[i] \in Ids(ret) <=> call.fetched[i] > call.pre_id
        /\ srvNextId <= call.pre_id + 1 => (ret = <<>> /\ last_id = call.pre_id)

\* The server's identifiers started again and have not reached the watermark:
\* the poll was sent entries and returned none.
C16_Witness ==
    /\ PolledOk
    /\ ~SawRestart
    /\ srvNextId <= call.pre_id
    /\ call.fetched # <<>>
    /\ ret = <<>>
    /\ last_id = call.pre_id

\* C17. Error recovery touches only the connection: after a failed get() and
\* redis_error_handler, last_id and uptime are what get() left and length is as
\* constructed; for a transient error a reconnection was attempted and the
\* connection is live only if it succeeded, the old one being kept otherwise;
\* for any other kind no reconnection is made; and a later poll returns nothing
\* that was delivered before.
C17_RecoveryTouchesConnectionOnly ==
    /\ (Polled /\ res # Ok) =>
        /\ length = FetchLength
        /\ last_id = Base
        /\ uptime = IF SawUptime THEN call.seen ELSE call.pre_up
        /\ res = IoError =>
              /\ call.recon # "none"
              /\ (call.recon = Ok => con = "live" /\ status = Running)
              /\ (call.recon # Ok => con = "dead" /\ status # ExitOk)
        /\ res # IoError => (call.recon = "none" /\ con = "live")
    /\ SecondOfTwo => call.again = {}

\* A transient failure was recovered by a reconnection, the watermark kept.
C17_Witness ==
    /\ Polled
    /\ res = IoError
    /\ call.recon = Ok
    /\ con = "live"
    /\ last_id > Sentinel
    /\ last_id = call.pre_id

\* A reconnection failed and the old connection was kept.
C17_WitnessFailed ==
    /\ Polled
    /\ res = IoError
    /\ call.recon = IoError
    /\ con = "dead"

\* C18. In every reachable state last_id is the sentinel, nothing having been
\* returned since the reader was constructed or last_id was last reset, or the
\* largest identifier returned since then.
C18_WatermarkIsLargestReturned ==
    /\ last_id >= Sentinel
    /\ last_id = IF delivered = {} THEN Sentinel ELSE SetMax(delivered)

\* The watermark is the largest of several returned identifiers.
C18_Witness ==
    /\ Cardinality(delivered) >= 2
    /\ last_id = SetMax(delivered)
    /\ cur.valid

\* The watermark is back at the sentinel after entries were returned.
C18_WitnessReset ==
    /\ cur.valid
    /\ cur.wm > Sentinel
    /\ last_id = Sentinel
    /\ delivered = {}

\* C19. No duplicate delivery: no get() returns an identifier that a get()
\* returned before it since last_id was last reset, and no returned sequence
\* holds an identifier twice.
C19_NoDuplicateDelivery ==
    /\ Polled => call.again = {}
    /\ Cardinality(Ids(ret)) = Len(ret)

\* A poll was sent entries delivered before, among new ones, and returned the
\* new ones only.
C19_Witness ==
    /\ PolledOk
    /\ ~SawRestart
    /\ ret # <<>>
    /\ Ids(call.fetched) \cap (delivered \ Ids(ret)) # {}

\* C20. A restart is not lost to a failed fetch: the successful get() that
\* follows a get() which detected a restart and then failed returns every entry
\* it fetched, although it observes no uptime below the stored one itself.
C20_RestartNotLost ==
    (PolledOk /\ call.between /\ ~SawRestart) =>
        (call.pre_id = Sentinel /\ ret = call.fetched)

\* Such a get() returned an entry at or below the watermark of the successful
\* get() before the restart.
C20_Witness ==
    /\ PolledOk
    /\ call.between
    /\ ~SawRestart
    /\ call.first.valid
    /\ \E i \in 1..Len(ret) : ret[i] <= call.first.wm

====
